---- MODULE Spec2Model ----
(***************************************************************************)
(* Food journal: the reconciliation between the in-memory current record   *)
(* (log), the in-memory history collection, the selected date and the two  *)
(* localStorage slots `food-journal-history` and `food-journal-log`, as    *)
(* implemented by the React component App.                                 *)
(*                                                                         *)
(* React scheduling.  A render commits the queued state; afterwards the    *)
(* effects whose dependencies changed run in the order they are declared   *)
(* (load, fold, persist, date selection).  An effect reads the values of   *)
(* the render it belongs to (log, history, isLoaded, selectedDate) and     *)
(* queues state updates (nLog, nHistory, nIsLoaded) that the next render   *)
(* commits.  UI events are handled between flushes only.  A render and the *)
(* flush that follows take milliseconds, so the calendar date changes only *)
(* while the component is quiescent.                                       *)
(*                                                                         *)
(* Date keys are fixed-width "YYYY-MM-DD" strings ordered by               *)
(* localeCompare; they are modelled by the integers 1..MaxDate in the same *)
(* order.  The hunger fields of an entry are JavaScript numbers that can   *)
(* be NaN; they are written as the text JavaScript prints for them ("5",   *)
(* "NaN") and "null" is what JSON makes of NaN.                            *)
(***************************************************************************)
EXTENDS Integers, Sequences, FiniteSets, TLC

MaxDate == 3

Dates == 1..MaxDate

NoteVals == {"", "a"}

-----------------------------------------------------------------------------
(* Records *)

\* mutant: the factory ignores the key it is given
getInitialLog_FirstDate(date) ==
    [date |-> 1,
     proteinGoal |-> "",
     totalProteinCalories |-> 0,
     ketosis |-> FALSE,
     followedPlan |-> FALSE,
     notes |-> "",
     waterIntake |-> 0,
     foodEntries |-> <<>>,
     miscEntries |-> <<>>,
     fatEntries |-> <<"", "">>,
     vegetableEntries |-> <<"", "">>,
     activities |-> <<>>,
     supplements |-> <<>>]

getInitialLog(date) ==
    [date |-> date,
     proteinGoal |-> "",
     totalProteinCalories |-> 0,
     ketosis |-> FALSE,
     followedPlan |-> FALSE,
     notes |-> "",
     waterIntake |-> 0,
     foodEntries |-> <<>>,
     miscEntries |-> <<>>,
     fatEntries |-> <<"", "">>,
     vegetableEntries |-> <<"", "">>,
     activities |-> <<>>,
     supplements |-> <<>>]

\* a draft written by an earlier format of the record: only some fields
OldFormatLog(date, notes) == [date |-> date, notes |-> notes]

Field(a, b, f) == IF f \in DOMAIN b THEN b[f] ELSE a[f]

\* { ...a, ...b } for b holding a subset of the fields of a
SpreadMerge(a, b) ==
    [date |-> Field(a, b, "date"),
     proteinGoal |-> Field(a, b, "proteinGoal"),
     totalProteinCalories |-> Field(a, b, "totalProteinCalories"),
     ketosis |-> Field(a, b, "ketosis"),
     followedPlan |-> Field(a, b, "followedPlan"),
     notes |-> Field(a, b, "notes"),
     waterIntake |-> Field(a, b, "waterIntake"),
     foodEntries |-> Field(a, b, "foodEntries"),
     miscEntries |-> Field(a, b, "miscEntries"),
     fatEntries |-> Field(a, b, "fatEntries"),
     vegetableEntries |-> Field(a, b, "vegetableEntries"),
     activities |-> Field(a, b, "activities"),
     supplements |-> Field(a, b, "supplements")]

-----------------------------------------------------------------------------
(* localStorage slots.  A slot is absent (getItem gives null), the empty   *)
(* text, text that JSON.parse rejects, the JSON text `null`, or the JSON   *)
(* text of a value: an array of records in the history slot, one record    *)
(* (val of length 1) in the draft slot.                                    *)

Absent == [kind |-> "absent", val |-> <<>>]

EmptyText == [kind |-> "empty", val |-> <<>>]

Garbage == [kind |-> "garbage", val |-> <<>>]

JsonNull == [kind |-> "null", val |-> <<>>]

\* JSON.stringify of a number: NaN has no JSON text and is written as null
JsonNumber(n) == IF n = "NaN" THEN "null" ELSE n

\* the JSON value of a meal or misc entry
JsonEntry(e) ==
    [e EXCEPT !.hungerBefore = JsonNumber(@), !.hungerAfter = JsonNumber(@)]

RECURSIVE JsonEntries(_)
JsonEntries(es) ==
    IF es = <<>> THEN <<>> ELSE <<JsonEntry(Head(es))>> \o JsonEntries(Tail(es))

\* the JSON value of a record; a record of an earlier format has no entries
JsonLog(l) ==
    IF "foodEntries" \in DOMAIN l
    THEN [l EXCEPT !.foodEntries = JsonEntries(@), !.miscEntries = JsonEntries(@)]
    ELSE l

RECURSIVE JsonLogs(_)
JsonLogs(h) ==
    IF h = <<>> THEN <<>> ELSE <<JsonLog(Head(h))>> \o JsonLogs(Tail(h))

\* JSON.stringify(history)
StringifyHistory(h) == [kind |-> "json", val |-> JsonLogs(h)]

\* JSON.stringify(log)
StringifyLog(l) == [kind |-> "json", val |-> <<JsonLog(l)>>]

\* `if (saved)`: null and "" are falsy
Truthy(slot) == slot.kind \notin {"absent", "empty"}

\* JSON.parse throws a SyntaxError
ParseThrows(slot) == slot.kind = "garbage"

\* rawInStore && rawInStore !== '[]'
NonEmptyRaw(slot) == Truthy(slot) /\ slot # StringifyHistory(<<>>)

-----------------------------------------------------------------------------
(* Array helpers *)

DateIdx(h, d) == {i \in 1..Len(h) : h[i].date = d}

HasDate(h, d) == DateIdx(h, d) # {}

\* h.find(x => x.date === d), for HasDate(h, d)
FindByDate(h, d) == h[CHOOSE i \in DateIdx(h, d) : \A j \in DateIdx(h, d) : i <= j]

DatesOf(h) == {h[i].date : i \in 1..Len(h)}

RECURSIVE SortDesc(_)
\* arr.sort((a, b) => b.date.localeCompare(a.date)): stable, descending
SortDesc(s) ==
    IF s = <<>> THEN <<>>
    ELSE LET x == Head(s)
             t == SortDesc(Tail(s))
         IN SelectSeq(t, LAMBDA r : r.date > x.date) \o <<x>>
              \o SelectSeq(t, LAMBDA r : r.date <= x.date)

\* mutant: the record is prepended without removing the old one of its date
FoldInto_NoFilter(prev, l) == SortDesc(<<l>> \o prev)

\* mutant: the record is prepended and the collection is not sorted again
FoldInto_NoSort(prev, l) ==
    <<l>> \o SelectSeq(prev, LAMBDA h : h.date # l.date)

\* mutant: the history is replaced by the current record alone
FoldInto_DropOthers(prev, l) == <<l>>

\* mutant: the records of earlier dates are dropped
FoldInto_DropOlder(prev, l) ==
    SortDesc(<<l>> \o SelectSeq(prev, LAMBDA h : h.date > l.date))

\* the updater of setHistory in the fold effect
FoldInto(prev, l) ==
    LET otherDays == SelectSeq(prev, LAMBDA h : h.date # l.date)
    IN SortDesc(<<l>> \o otherDays)

-----------------------------------------------------------------------------
(* State *)

VARIABLES
    today,          \* the calendar date: what getLocalDateString() returns now
    storeHistory,   \* localStorage slot 'food-journal-history'
    storeLog,       \* localStorage slot 'food-journal-log'
    isLoaded,       \* state of the last render
    selectedDate,
    history,
    histOk,         \* the history state is an array (FALSE: it is null)
    log,
    nIsLoaded,      \* queued state, committed by the next render
    nHistory,
    nHistOk,
    nLog,
    changed,        \* the state hooks whose queued value differs from the render's
    todo,           \* the effects of this flush still to run, in declaration order
    failing,        \* an effect or a queued updater threw; the next render fails
    crashed,        \* the component tree was unmounted by an uncaught error
    lastStep,       \* history variables: the last step taken, what it wrote,
    wroteLog,
    wroteHistory,
    blocked,
    lastEvent,      \* the last thing that happened to the quiescent component
    lastMutDate,    \* date key of the record the last mutation changed, 0 if none
    bootHistory,    \* the two slots as the running startup found them
    bootLog,
    bootPrev,       \* <<the record that was current when the page was reloaded>>
    pendingEntry,   \* the staging values of the three add-entry forms
    pendingActivity,
    pendingMisc,
    wallClock       \* the time of day, as toLocaleTimeString('en-GB') prints it

vars == <<today, storeHistory, storeLog, isLoaded, selectedDate, history, histOk,
          log, nIsLoaded, nHistory, nHistOk, nLog, changed, todo, failing, crashed,
          lastStep, wroteLog, wroteHistory, blocked, lastEvent, lastMutDate,
          bootHistory, bootLog, bootPrev, pendingEntry, pendingActivity,
          pendingMisc, wallClock>>

store == <<storeHistory, storeLog>>

rendered == <<isLoaded, selectedDate, history, histOk, log>>

queued == <<nIsLoaded, nHistory, nHistOk, nLog>>

staging == <<pendingEntry, pendingActivity, pendingMisc>>

form == <<pendingEntry, pendingActivity, pendingMisc, wallClock>>

\* useState initial value of pendingEntry, and what savePendingEntry resets it to
BlankEntry ==
    [id |-> "pending", source |-> "", time |-> "", serving |-> "",
     calories |-> 0, hungerBefore |-> "5", hungerAfter |-> "5"]

BlankActivity == [id |-> "pending-activity", type |-> "", duration |-> ""]

BlankMisc ==
    [id |-> "pending-misc", source |-> "", time |-> "", serving |-> "",
     calories |-> 0, hungerBefore |-> "5", hungerAfter |-> "5"]

WallTimes == {"12:34", "12:35"}

\* every effect runs after the first render
MountEffects == <<"load", "fold", "persist", "datesel">>

Idle == todo = <<>> /\ changed = {} /\ ~failing /\ ~crashed

\* mutant: the effects do not wait for the load
EarlyReturn_Never == FALSE

\* `if (!isLoaded) return;` at the head of the fold, persist and date effects
EarlyReturn == ~isLoaded

\* mutant: the draft is written whatever the date of the record
DraftIsForToday_Always(l) == TRUE

\* mutant: the draft is never written
DraftIsForToday_Never(l) == FALSE

\* `log.date === getLocalDateString()`, computed when the fold effect runs
DraftIsForToday(l) == l.date = today

\* mutant: the persist effect has no guard
GuardBlocks_Never(h, slot) == FALSE

\* the safety check of the persist effect
GuardBlocks(h, slot) == h = <<>> /\ NonEmptyRaw(slot)

\* mutant: the stored history is read and not adopted
ParsedHistory_Empty(hs) == <<>>

\* parsedHistory of the load effect, [] unless the slot holds an array
ParsedHistory(hs) == IF Truthy(hs) /\ hs.kind = "json" THEN hs.val ELSE <<>>

-----------------------------------------------------------------------------
(* Initial states: the component just rendered for the first time, over    *)
(* storage left by earlier runs (sorted, one record per date) or damaged.  *)

RecFor(d, n) == [getInitialLog(d) EXCEPT !.notes = n]

SetMax(S) == CHOOSE m \in S : \A x \in S : x <= m

RECURSIVE DescSeq(_, _)
DescSeq(S, f) ==
    IF S = {} THEN <<>>
    ELSE LET m == SetMax(S)
         IN <<RecFor(m, f[m])>> \o DescSeq(S \ {m}, f)

StoredHistories ==
    UNION {{DescSeq(S, f) : f \in [S -> NoteVals]} : S \in SUBSET Dates}

InitHistorySlots ==
    {Absent, EmptyText, Garbage, JsonNull}
        \cup {StringifyHistory(h) : h \in StoredHistories}

InitLogSlots ==
    {Absent, Garbage, JsonNull}
        \cup {StringifyLog(RecFor(d, n)) : d \in Dates, n \in NoteVals}
        \cup {StringifyLog(OldFormatLog(d, "a")) : d \in Dates}

Mounted ==
    /\ isLoaded = FALSE
    /\ selectedDate = today
    /\ history = <<>>
    /\ histOk = TRUE
    /\ log = getInitialLog(today)
    /\ nIsLoaded = FALSE
    /\ nHistory = <<>>
    /\ nHistOk = TRUE
    /\ nLog = getInitialLog(today)
    /\ changed = {}
    /\ todo = MountEffects
    /\ failing = FALSE
    /\ crashed = FALSE
    /\ pendingEntry = BlankEntry
    /\ pendingActivity = BlankActivity
    /\ pendingMisc = BlankMisc

\* a draft is written with the date of the day, so none is dated after today
Init ==
    /\ today \in Dates
    /\ storeHistory \in InitHistorySlots
    /\ storeLog \in InitLogSlots
    /\ storeLog.kind = "json" => storeLog.val[1].date <= today
    /\ wallClock = "12:34"
    /\ bootPrev = <<>>
    /\ Mounted
    /\ lastStep = "mount"
    /\ wroteLog = FALSE
    /\ wroteHistory = FALSE
    /\ blocked = FALSE
    /\ lastEvent = "boot"
    /\ lastMutDate = 0
    /\ bootHistory = storeHistory
    /\ bootLog = storeLog

-----------------------------------------------------------------------------
(* The initial load effect *)

\* what the try block has done when it ends or throws:
\*   histSet/hist/histOk  setHistory(parsedHistory) was called, with what
\*   logSet/log           setLog(...) was called, with what
LoadOutcome(hs, ls, t) ==
    LET histRead == Truthy(hs)
        histThrows == histRead /\ ParseThrows(hs)
        parsedOk == ~histRead \/ hs.kind = "json"
        parsedHistory == ParsedHistory(hs)
        logRead == Truthy(ls)
        \* JSON.parse(savedLog) throws, or parsed is null and parsed.date throws
        logThrows == logRead /\ (ParseThrows(ls) \/ ls.kind = "null")
        initialLog ==
            IF logRead /\ ls.kind = "json" /\ ls.val[1].date = t
            THEN SpreadMerge(getInitialLog(t), ls.val[1])
            ELSE getInitialLog(t)
        \* parsedHistory.find throws on null
        findThrows == ~parsedOk
    IN  IF histThrows
        THEN [histSet |-> FALSE, hist |-> <<>>, histOk |-> TRUE,
              logSet |-> FALSE, log |-> getInitialLog(t)]
        ELSE IF logThrows \/ findThrows
        THEN [histSet |-> histRead, hist |-> parsedHistory, histOk |-> parsedOk,
              logSet |-> FALSE, log |-> getInitialLog(t)]
        ELSE [histSet |-> histRead, hist |-> parsedHistory, histOk |-> TRUE,
              logSet |-> TRUE,
              log |-> IF HasDate(parsedHistory, t)
                      THEN FindByDate(parsedHistory, t)
                      ELSE initialLog]

LoadEffect ==
    /\ todo # <<>> /\ Head(todo) = "load"
    /\ LET o == LoadOutcome(storeHistory, storeLog, today)
       IN /\ nHistory' = IF o.histSet THEN o.hist ELSE nHistory
          /\ nHistOk' = IF o.histSet THEN o.histOk ELSE nHistOk
          /\ nLog' = IF o.logSet THEN o.log ELSE nLog
          /\ changed' = changed \cup {"isLoaded"}
                            \cup (IF o.histSet THEN {"history"} ELSE {})
                            \cup (IF o.logSet THEN {"log"} ELSE {})
    /\ nIsLoaded' = TRUE
    /\ todo' = Tail(todo)
    /\ lastStep' = "load"
    /\ wroteLog' = FALSE /\ wroteHistory' = FALSE /\ blocked' = FALSE
    /\ UNCHANGED <<today, store, rendered, failing, crashed, lastEvent,
                   lastMutDate, bootHistory, bootLog, bootPrev, form>>

-----------------------------------------------------------------------------
(* The fold effect: save the current log to history, and to the draft slot *)

FoldEffect ==
    /\ todo # <<>> /\ Head(todo) = "fold"
    /\ todo' = Tail(todo)
    /\ lastStep' = "fold"
    /\ wroteHistory' = FALSE /\ blocked' = FALSE
    /\ IF EarlyReturn
       THEN /\ wroteLog' = FALSE
            /\ UNCHANGED <<nHistory, changed, failing, storeLog>>
       ELSE /\ IF nHistOk
               THEN /\ nHistory' = FoldInto(nHistory, log)
                    /\ changed' = changed \cup {"history"}
                    /\ UNCHANGED failing
               ELSE \* prev.filter throws when the updater runs
                    /\ failing' = TRUE
                    /\ UNCHANGED <<nHistory, changed>>
            /\ IF DraftIsForToday(log)
               THEN storeLog' = StringifyLog(log) /\ wroteLog' = TRUE
               ELSE UNCHANGED storeLog /\ wroteLog' = FALSE
    /\ UNCHANGED <<today, storeHistory, rendered, nIsLoaded, nHistOk, nLog,
                   crashed, lastEvent, lastMutDate, bootHistory, bootLog, bootPrev, form>>

-----------------------------------------------------------------------------
(* The persist effect, with its guard *)

PersistEffect ==
    /\ todo # <<>> /\ Head(todo) = "persist"
    /\ todo' = Tail(todo)
    /\ lastStep' = "persist"
    /\ wroteLog' = FALSE
    /\ IF EarlyReturn
       THEN /\ wroteHistory' = FALSE /\ blocked' = FALSE
            /\ UNCHANGED <<storeHistory, failing>>
       ELSE IF ~histOk
       THEN \* history.length throws on null
            /\ failing' = TRUE
            /\ wroteHistory' = FALSE /\ blocked' = FALSE
            /\ UNCHANGED storeHistory
       ELSE IF GuardBlocks(history, storeHistory)
       THEN /\ blocked' = TRUE /\ wroteHistory' = FALSE
            /\ UNCHANGED <<storeHistory, failing>>
       ELSE /\ storeHistory' = StringifyHistory(history)
            /\ wroteHistory' = TRUE /\ blocked' = FALSE
            /\ UNCHANGED failing
    /\ UNCHANGED <<today, storeLog, rendered, queued, changed, crashed, lastEvent,
                   lastMutDate, bootHistory, bootLog, bootPrev, form>>

-----------------------------------------------------------------------------
(* The date selection effect *)

\* mutant: the date effect always starts a fresh record
DateSelEffect_Fresh ==
    /\ todo # <<>> /\ Head(todo) = "datesel"
    /\ todo' = Tail(todo)
    /\ lastStep' = "datesel"
    /\ wroteLog' = FALSE /\ wroteHistory' = FALSE /\ blocked' = FALSE
    /\ IF EarlyReturn
       THEN UNCHANGED <<nLog, changed>>
       ELSE nLog' = getInitialLog(selectedDate) /\ changed' = changed \cup {"log"}
    /\ UNCHANGED <<today, store, rendered, nIsLoaded, nHistory, nHistOk, failing,
                   crashed, lastEvent, lastMutDate, bootHistory, bootLog, bootPrev, form>>

\* setLog(entry) with an element of history re-renders unless entry is the
\* object log already is.  Between flushes log is an element of history and
\* the only one of its date, and during the startup flush both come from the
\* same find, so "the same object" is "the same record".
DateSelEffect ==
    /\ todo # <<>> /\ Head(todo) = "datesel"
    /\ todo' = Tail(todo)
    /\ lastStep' = "datesel"
    /\ wroteLog' = FALSE /\ wroteHistory' = FALSE /\ blocked' = FALSE
    /\ IF EarlyReturn
       THEN UNCHANGED <<nLog, changed, failing>>
       ELSE IF ~histOk
       THEN \* history.find throws on null
            failing' = TRUE /\ UNCHANGED <<nLog, changed>>
       ELSE IF HasDate(history, selectedDate)
       THEN LET entryForDate == FindByDate(history, selectedDate)
            IN /\ nLog' = entryForDate
               /\ changed' = IF entryForDate # log THEN changed \cup {"log"}
                             ELSE changed \ {"log"}
               /\ UNCHANGED failing
       ELSE /\ nLog' = getInitialLog(selectedDate)
            /\ changed' = changed \cup {"log"}
            /\ UNCHANGED failing
    /\ UNCHANGED <<today, store, rendered, nIsLoaded, nHistory, nHistOk, crashed,
                   lastEvent, lastMutDate, bootHistory, bootLog, bootPrev, form>>

-----------------------------------------------------------------------------
(* A render: commit the queue and schedule the effects whose deps changed *)

\* mutant: the fold effect depends on history too
EffectsFor_FoldOnHistory(ch) ==
    (IF ch \cap {"log", "history", "isLoaded"} # {} THEN <<"fold">> ELSE <<>>)
      \o (IF ch \cap {"history", "isLoaded"} # {} THEN <<"persist">> ELSE <<>>)
      \o (IF ch \cap {"selectedDate", "isLoaded"} # {} THEN <<"datesel">> ELSE <<>>)

\* mutant: the date selection effect does not depend on selectedDate
EffectsFor_NoDateSel(ch) ==
    (IF ch \cap {"log", "isLoaded"} # {} THEN <<"fold">> ELSE <<>>)
      \o (IF ch \cap {"history", "isLoaded"} # {} THEN <<"persist">> ELSE <<>>)
      \o (IF ch \cap {"isLoaded"} # {} THEN <<"datesel">> ELSE <<>>)

\* mutant: the persist effect does not depend on history
EffectsFor_NoPersist(ch) ==
    (IF ch \cap {"log", "isLoaded"} # {} THEN <<"fold">> ELSE <<>>)
      \o (IF ch \cap {"isLoaded"} # {} THEN <<"persist">> ELSE <<>>)
      \o (IF ch \cap {"selectedDate", "isLoaded"} # {} THEN <<"datesel">> ELSE <<>>)

EffectsFor(ch) ==
    (IF ch \cap {"log", "isLoaded"} # {} THEN <<"fold">> ELSE <<>>)
      \o (IF ch \cap {"history", "isLoaded"} # {} THEN <<"persist">> ELSE <<>>)
      \o (IF ch \cap {"selectedDate", "isLoaded"} # {} THEN <<"datesel">> ELSE <<>>)

Render ==
    /\ todo = <<>> /\ ~crashed
    /\ changed # {} \/ failing
    /\ lastStep' = "render"
    /\ wroteLog' = FALSE /\ wroteHistory' = FALSE /\ blocked' = FALSE
    /\ changed' = {}
    /\ failing' = FALSE
    /\ IF failing
       THEN /\ crashed' = TRUE
            /\ todo' = <<>>
            /\ UNCHANGED <<isLoaded, history, histOk, log>>
       ELSE /\ crashed' = FALSE
            /\ isLoaded' = nIsLoaded
            /\ history' = nHistory
            /\ histOk' = nHistOk
            /\ log' = nLog
            /\ todo' = EffectsFor(changed)
    /\ UNCHANGED <<today, store, selectedDate, queued, lastEvent, lastMutDate,
                   bootHistory, bootLog, bootPrev, form>>

-----------------------------------------------------------------------------
(* UI events, handled while the component is quiescent *)

Ready == Idle /\ isLoaded

Event(name) ==
    /\ lastStep' = name
    /\ wroteLog' = FALSE /\ wroteHistory' = FALSE /\ blocked' = FALSE
    /\ bootHistory' = Absent /\ bootLog' = Absent /\ bootPrev' = <<>>

\* notes textarea onChange: setLog(prev => ({ ...prev, notes }))
EditNotes(v) ==
    /\ Ready
    /\ nLog' = [nLog EXCEPT !.notes = v]
    /\ changed' = {"log"}
    /\ Event("editNotes")
    /\ lastEvent' = "mutate"
    /\ lastMutDate' = log.date
    /\ UNCHANGED <<today, store, rendered, nIsLoaded, nHistory, nHistOk, todo,
                   failing, crashed, form>>

\* mutant: setting the date that is selected already schedules a render too
SetSelectedDate_NoBailOut(d) ==
    /\ selectedDate' = d
    /\ changed' = {"selectedDate"}
    /\ lastEvent' = IF HasDate(history, d) THEN "select" ELSE "selectNew"
    /\ UNCHANGED <<today, store, isLoaded, history, histOk, log, queued, todo,
                   failing, crashed, lastMutDate, form>>

\* setSelectedDate(d): React bails out when d is the selected date already
SetSelectedDate(d) ==
    /\ selectedDate' = d
    /\ changed' = IF d # selectedDate THEN {"selectedDate"} ELSE {}
    /\ lastEvent' = IF HasDate(history, d) THEN "select" ELSE "selectNew"
    /\ UNCHANGED <<today, store, isLoaded, history, histOk, log, queued, todo,
                   failing, crashed, lastMutDate, form>>

\* date input onChange
DateInputChange(d) ==
    /\ Ready
    /\ SetSelectedDate(d)
    /\ Event("dateInput")

\* the "Reset to Today" button
ResetToToday ==
    /\ Ready
    /\ SetSelectedDate(today)
    /\ Event("resetToToday")

\* the date button of row i of the history view
HistoryRowClick(i) ==
    /\ Ready
    /\ i \in 1..Len(history)
    /\ SetSelectedDate(history[i].date)
    /\ Event("historyRow")

\* window.location.reload(), or the window closed and opened again: the
\* in-memory state is discarded, the storage stays
Reload ==
    /\ Ready \/ crashed
    /\ isLoaded' = FALSE
    /\ selectedDate' = today
    /\ history' = <<>>
    /\ histOk' = TRUE
    /\ log' = getInitialLog(today)
    /\ nIsLoaded' = FALSE
    /\ nHistory' = <<>>
    /\ nHistOk' = TRUE
    /\ nLog' = getInitialLog(today)
    /\ changed' = {}
    /\ todo' = MountEffects
    /\ failing' = FALSE
    /\ crashed' = FALSE
    /\ lastStep' = "mount"
    /\ wroteLog' = FALSE /\ wroteHistory' = FALSE /\ blocked' = FALSE
    /\ lastEvent' = "boot"
    /\ lastMutDate' = 0
    /\ bootHistory' = storeHistory
    /\ bootLog' = storeLog
    /\ bootPrev' = IF crashed THEN <<>> ELSE <<log>>
    /\ pendingEntry' = BlankEntry
    /\ pendingActivity' = BlankActivity
    /\ pendingMisc' = BlankMisc
    /\ UNCHANGED <<today, store, wallClock>>

\* midnight passes
Tick ==
    /\ Ready \/ crashed
    /\ today < MaxDate
    /\ today' = today + 1
    /\ lastStep' = "tick"
    /\ wroteLog' = FALSE /\ wroteHistory' = FALSE /\ blocked' = FALSE
    /\ lastEvent' = "tick"
    /\ bootHistory' = Absent /\ bootLog' = Absent /\ bootPrev' = <<>>
    /\ UNCHANGED <<store, rendered, queued, changed, todo, failing, crashed,
                   lastMutDate, form>>

Next ==
    \/ LoadEffect
    \/ FoldEffect
    \/ PersistEffect
    \/ DateSelEffect
    \/ Render
    \/ \E v \in NoteVals : EditNotes(v)
    \/ \E d \in Dates : DateInputChange(d)
    \/ ResetToToday
    \/ \E i \in 1..MaxDate : HistoryRowClick(i)
    \/ Reload
    \/ Tick

Spec == Init /\ [][Next]_vars

\* the work React does by itself: the pending effects, then the pending render
Flush ==
    \/ LoadEffect
    \/ FoldEffect
    \/ PersistEffect
    \/ DateSelEffect
    \/ Render

\* React runs the effects of a commit and the render of a queued update without
\* waiting for anything
SpecLive == Init /\ [][Next]_vars /\ WF_vars(Flush)

TypeOK ==
    /\ today \in Dates
    /\ isLoaded \in BOOLEAN /\ nIsLoaded \in BOOLEAN
    /\ selectedDate \in Dates
    /\ log.date \in Dates /\ nLog.date \in Dates
    /\ changed \subseteq {"log", "history", "selectedDate", "isLoaded"}
    /\ Len(todo) <= 4

-----------------------------------------------------------------------------
(* The entry forms: meals, miscellaneous intake, activities.  The staging  *)
(* values change by the inputs' onChange handlers; the add handlers run on *)
(* the add button and on Enter in any input of the form, the remove        *)
(* handlers on the button of a row, which stays on screen while its exit   *)
(* animation runs.  The user fills in at most MaxOpenForms of the three    *)
(* forms at a time.                                                        *)

MaxEntries == 2

MaxOpenForms == 1

\* Math.random().toString(36).substr(2, 9): any text, equal ones included
IdVals == {"k1", "k2"}

SourceVals == {"", "Eggs"}

MiscSourceVals == {"", "Tea"}

TimeVals == {"", "08:00"}

TypeVals == {"", "Walk"}

\* what a number input holds: nothing, or digits
HungerTexts == {"", "5"}

\* parseInt(e.target.value) of a number input: NaN for the empty text
ParseInt(text) == IF text = "" THEN "NaN" ELSE text

NumEntries(l) == Len(l.foodEntries) + Len(l.miscEntries) + Len(l.activities)

\* mutant: the add handlers accept a blank label
Rejects_Never(label) == FALSE

\* `if (!pendingEntry.source) return;`
Rejects(label) == label = ""

\* mutant: the new entry is put last
Prepend_Append(e, s) == s \o <<e>>

\* [newEntry, ...prev.foodEntries]
Prepend(e, s) == <<e>> \o s

\* mutant: the time of the add is stored whatever was staged
TimeOrNow_Now(t, now) == now

\* pendingEntry.time || new Date().toLocaleTimeString('en-GB', ...)
TimeOrNow(t, now) == IF t = "" THEN now ELSE t

\* mutant: the first row is removed whatever its id
RemoveById_First(s, id) == IF s = <<>> THEN s ELSE Tail(s)

\* prev.foodEntries.filter(e => e.id !== id)
RemoveById(s, id) == SelectSeq(s, LAMBDA e : e.id # id)

\* the number of forms that hold staged values
OpenForms ==
    (IF pendingEntry # BlankEntry THEN 1 ELSE 0)
      + (IF pendingActivity # BlankActivity THEN 1 ELSE 0)
      + (IF pendingMisc # BlankMisc THEN 1 ELSE 0)

\* an onChange handler of a staging input of the form whose values are p
Stage(name, p, blank) ==
    /\ Ready
    /\ p # blank \/ OpenForms < MaxOpenForms
    /\ Event(name)
    /\ lastEvent' = "stage"
    /\ UNCHANGED <<today, store, rendered, queued, changed, todo, failing,
                   crashed, lastMutDate, wallClock>>

SetEntrySource(v) ==
    /\ Stage("setEntrySource", pendingEntry, BlankEntry)
    /\ pendingEntry' = [pendingEntry EXCEPT !.source = v]
    /\ UNCHANGED <<pendingActivity, pendingMisc>>

SetEntryTime(v) ==
    /\ Stage("setEntryTime", pendingEntry, BlankEntry)
    /\ pendingEntry' = [pendingEntry EXCEPT !.time = v]
    /\ UNCHANGED <<pendingActivity, pendingMisc>>

SetEntryHungerBefore(text) ==
    /\ Stage("setEntryHungerBefore", pendingEntry, BlankEntry)
    /\ pendingEntry' = [pendingEntry EXCEPT !.hungerBefore = ParseInt(text)]
    /\ UNCHANGED <<pendingActivity, pendingMisc>>

SetMiscSource(v) ==
    /\ Stage("setMiscSource", pendingMisc, BlankMisc)
    /\ pendingMisc' = [pendingMisc EXCEPT !.source = v]
    /\ UNCHANGED <<pendingEntry, pendingActivity>>

SetMiscTime(v) ==
    /\ Stage("setMiscTime", pendingMisc, BlankMisc)
    /\ pendingMisc' = [pendingMisc EXCEPT !.time = v]
    /\ UNCHANGED <<pendingEntry, pendingActivity>>

SetActivityType(v) ==
    /\ Stage("setActivityType", pendingActivity, BlankActivity)
    /\ pendingActivity' = [pendingActivity EXCEPT !.type = v]
    /\ UNCHANGED <<pendingEntry, pendingMisc>>

\* a handler that returns before it sets any state
Rejected(name) ==
    /\ Ready
    /\ Event(name)
    /\ lastEvent' = "rejected"
    /\ UNCHANGED <<today, store, rendered, queued, changed, todo, failing,
                   crashed, lastMutDate, form>>

\* mutant: the handler does not spread prev: the fields it does not set are
\* those of a fresh record
Mutate_NoSpread(name, newLog) ==
    /\ Ready
    /\ nLog' = [f \in DOMAIN newLog |->
                   IF newLog[f] # nLog[f] \/ f = "date" THEN newLog[f]
                   ELSE getInitialLog(nLog.date)[f]]
    /\ changed' = {"log"}
    /\ Event(name)
    /\ lastEvent' = "mutate"
    /\ lastMutDate' = log.date
    /\ UNCHANGED <<today, store, rendered, nIsLoaded, nHistory, nHistOk, todo,
                   failing, crashed, wallClock>>

\* setLog(prev => newLog): a new object, so the component renders again
Mutate(name, newLog) ==
    /\ Ready
    /\ nLog' = newLog
    /\ changed' = {"log"}
    /\ Event(name)
    /\ lastEvent' = "mutate"
    /\ lastMutDate' = log.date
    /\ UNCHANGED <<today, store, rendered, nIsLoaded, nHistory, nHistOk, todo,
                   failing, crashed, wallClock>>

savePendingEntry(id) ==
    IF Rejects(pendingEntry.source)
    THEN Rejected("savePendingEntry")
    ELSE LET newEntry == [pendingEntry EXCEPT
                              !.id = id,
                              !.time = TimeOrNow(pendingEntry.time, wallClock)]
         IN /\ NumEntries(nLog) < MaxEntries
            /\ Mutate("savePendingEntry",
                      [nLog EXCEPT !.foodEntries = Prepend(newEntry, @)])
            /\ pendingEntry' = BlankEntry
            /\ UNCHANGED <<pendingActivity, pendingMisc>>

removeFoodEntry(id) ==
    /\ Mutate("removeFoodEntry", [nLog EXCEPT !.foodEntries = RemoveById(@, id)])
    /\ UNCHANGED staging

savePendingActivity(id) ==
    IF Rejects(pendingActivity.type)
    THEN Rejected("savePendingActivity")
    ELSE LET newEntry == [pendingActivity EXCEPT !.id = id]
         IN /\ NumEntries(nLog) < MaxEntries
            /\ Mutate("savePendingActivity",
                      [nLog EXCEPT !.activities = Prepend(newEntry, @)])
            /\ pendingActivity' = BlankActivity
            /\ UNCHANGED <<pendingEntry, pendingMisc>>

removeActivity(id) ==
    /\ Mutate("removeActivity", [nLog EXCEPT !.activities = RemoveById(@, id)])
    /\ UNCHANGED staging

savePendingMisc(id) ==
    IF Rejects(pendingMisc.source)
    THEN Rejected("savePendingMisc")
    ELSE LET newEntry == [pendingMisc EXCEPT
                              !.id = id,
                              !.time = TimeOrNow(pendingMisc.time, wallClock)]
         IN /\ NumEntries(nLog) < MaxEntries
            /\ Mutate("savePendingMisc",
                      [nLog EXCEPT !.miscEntries = Prepend(newEntry, @)])
            /\ pendingMisc' = BlankMisc
            /\ UNCHANGED <<pendingEntry, pendingActivity>>

removeMiscEntry(id) ==
    /\ Mutate("removeMiscEntry", [nLog EXCEPT !.miscEntries = RemoveById(@, id)])
    /\ UNCHANGED staging

\* a minute passes
ClockAdvance ==
    /\ Ready
    /\ wallClock = "12:34"
    /\ wallClock' = "12:35"
    /\ Event("clock")
    /\ lastEvent' = "clock"
    /\ UNCHANGED <<today, store, rendered, queued, changed, todo, failing,
                   crashed, lastMutDate, staging>>

\* the first start of the application: nothing is stored
InitFresh ==
    /\ today = 1
    /\ storeHistory = Absent
    /\ storeLog = Absent
    /\ wallClock = "12:34"
    /\ bootPrev = <<>>
    /\ Mounted
    /\ lastStep = "mount"
    /\ wroteLog = FALSE
    /\ wroteHistory = FALSE
    /\ blocked = FALSE
    /\ lastEvent = "boot"
    /\ lastMutDate = 0
    /\ bootHistory = storeHistory
    /\ bootLog = storeLog

NextEntries ==
    \/ LoadEffect
    \/ FoldEffect
    \/ PersistEffect
    \/ DateSelEffect
    \/ Render
    \/ \E v \in SourceVals : SetEntrySource(v)
    \/ \E v \in TimeVals : SetEntryTime(v)
    \/ \E t \in HungerTexts : SetEntryHungerBefore(t)
    \/ \E v \in MiscSourceVals : SetMiscSource(v)
    \/ \E v \in TimeVals : SetMiscTime(v)
    \/ \E v \in TypeVals : SetActivityType(v)
    \/ \E id \in IdVals : savePendingEntry(id)
    \/ \E id \in IdVals : removeFoodEntry(id)
    \/ \E id \in IdVals : savePendingActivity(id)
    \/ \E id \in IdVals : removeActivity(id)
    \/ \E id \in IdVals : savePendingMisc(id)
    \/ \E id \in IdVals : removeMiscEntry(id)
    \/ ClockAdvance
    \/ Reload

SpecEntries == InitFresh /\ [][NextEntries]_vars

-----------------------------------------------------------------------------
(* The water pips *)

NumPips == 8

Pips == 0..(NumPips - 1)

\* mutant: a click adds one to the count
WaterAfter_AddOne(c, i) == c + 1

\* mutant: a click always fills up to the pip
WaterAfter_Fill(c, i) == i + 1

\* i + 1 === log.waterIntake ? i : i + 1
WaterAfter(c, i) == IF i + 1 = c THEN i ELSE i + 1

\* onClick of pip i: the count compared is the one of the render
ClickPip(i) ==
    /\ Mutate("clickPip", [nLog EXCEPT !.waterIntake = WaterAfter(log.waterIntake, i)])
    /\ UNCHANGED staging

NextWater ==
    \/ LoadEffect
    \/ FoldEffect
    \/ PersistEffect
    \/ DateSelEffect
    \/ Render
    \/ \E i \in Pips : ClickPip(i)
    \/ \E v \in NoteVals : EditNotes(v)
    \/ Reload

SpecWater == InitFresh /\ [][NextWater]_vars

-----------------------------------------------------------------------------
(* The whole form of one day: the scalar fields and the three entry lists  *)

GoalVals == {"", "120g"}

\* proteinGoal input onChange
EditProteinGoal(v) ==
    /\ Mutate("editProteinGoal", [nLog EXCEPT !.proteinGoal = v])
    /\ UNCHANGED staging

\* the Yes and No buttons of "In ketosis?"
SetKetosis(b) ==
    /\ Mutate("setKetosis", [nLog EXCEPT !.ketosis = b])
    /\ UNCHANGED staging

\* the Yes and No buttons of "Followed plan?"
SetFollowedPlan(b) ==
    /\ Mutate("setFollowedPlan", [nLog EXCEPT !.followedPlan = b])
    /\ UNCHANGED staging

NextForm ==
    \/ LoadEffect
    \/ FoldEffect
    \/ PersistEffect
    \/ DateSelEffect
    \/ Render
    \/ \E v \in SourceVals : SetEntrySource(v)
    \/ \E v \in MiscSourceVals : SetMiscSource(v)
    \/ \E v \in TypeVals : SetActivityType(v)
    \/ \E id \in IdVals : savePendingEntry(id)
    \/ \E id \in IdVals : removeFoodEntry(id)
    \/ \E id \in IdVals : savePendingActivity(id)
    \/ \E id \in IdVals : removeActivity(id)
    \/ \E id \in IdVals : savePendingMisc(id)
    \/ \E id \in IdVals : removeMiscEntry(id)
    \/ \E i \in Pips : ClickPip(i)
    \/ \E v \in NoteVals : EditNotes(v)
    \/ \E v \in GoalVals : EditProteinGoal(v)
    \/ \E b \in BOOLEAN : SetKetosis(b)
    \/ \E b \in BOOLEAN : SetFollowedPlan(b)

SpecForm == InitFresh /\ [][NextForm]_vars

-----------------------------------------------------------------------------
(* The date input cleared.  An <input type="date"> that is emptied reports *)
(* the value "", which is no date key; "" sorts before every date key.     *)

EmptyKey == 0

\* date input onChange with e.target.value = ""
ClearDateInput ==
    /\ Ready
    /\ SetSelectedDate(EmptyKey)
    /\ Event("clearDateInput")

NextClear ==
    \/ LoadEffect
    \/ FoldEffect
    \/ PersistEffect
    \/ DateSelEffect
    \/ Render
    \/ \E v \in NoteVals : EditNotes(v)
    \/ \E d \in Dates : DateInputChange(d)
    \/ ClearDateInput
    \/ ResetToToday
    \/ \E i \in 1..(MaxDate + 1) : HistoryRowClick(i)
    \/ Reload
    \/ Tick

SpecClear == Init /\ [][NextClear]_vars

-----------------------------------------------------------------------------
(* Properties *)

HasRecords(slot) == slot.kind = "json" /\ slot.val # <<>>

StoredDates == IF storeHistory.kind = "json" THEN DatesOf(storeHistory.val) ELSE {}

\* the startup and every effect it triggered have settled, nothing else happened
BootSettled == Ready /\ lastEvent = "boot"

DraftForToday(slot) == slot.kind = "json" /\ slot.val[1].date = today

HistHasToday(slot) == slot.kind = "json" /\ HasDate(slot.val, today)

Unique(h) == \A i, j \in 1..Len(h) : h[i].date = h[j].date => i = j

SortedDesc(h) == \A i, j \in 1..Len(h) : i < j => h[i].date > h[j].date

\* C1: a persist step that runs while the in-memory history is empty and the
\* history slot holds non-empty content (not absent, not "", not "[]") leaves
\* the slot unchanged; and a slot that holds records is never overwritten by
\* the empty collection.
C1_PersistGuard ==
    [][/\ (PersistEffect /\ histOk /\ history = <<>> /\ NonEmptyRaw(storeHistory))
           => storeHistory' = storeHistory
       /\ HasRecords(storeHistory) => storeHistory' # StringifyHistory(<<>>)]_vars

\* the persist effect has just been stopped by its guard
C1_Witness ==
    /\ lastStep = "persist" /\ blocked
    /\ isLoaded /\ history = <<>> /\ NonEmptyRaw(storeHistory)

\* C2: while isLoaded is false no step writes either storage slot, and the
\* fold, persist and date selection effects queue no state update: the record
\* is not folded into history and the date effect does not replace it.
C2_InitializationGate ==
    [][~isLoaded =>
          /\ store' = store
          /\ ~wroteLog' /\ ~wroteHistory'
          /\ lastStep' \in {"fold", "persist", "datesel"}
                => queued' = queued /\ changed' = changed]_vars

\* the three gated effects ran before the load was committed, over stored records
C2_Witness ==
    /\ ~isLoaded /\ lastStep = "datesel" /\ nIsLoaded
    /\ HasRecords(storeHistory) /\ storeLog.kind = "json"

\* C3: when the stored history has no record for today and the draft slot
\* holds a record for today, then once startup has settled the current record
\* is the fresh record for today with the draft's fields merged over it, and
\* the draft slot still holds it.
C3_DraftPrecedence ==
    (BootSettled /\ ~HistHasToday(bootHistory) /\ DraftForToday(bootLog))
        => /\ log = SpreadMerge(getInitialLog(today), bootLog.val[1])
           /\ storeLog = StringifyLog(SpreadMerge(getInitialLog(today), bootLog.val[1]))

\* C4: when the stored history holds a record for today, the current record
\* after startup has settled is that record, whatever the draft slot holds.
C4_HistoryAuthoritative ==
    (BootSettled /\ HistHasToday(bootHistory))
        => log = FindByDate(bootHistory.val, today)

\* startup settled over a history record for today and a different draft for today
C4_Witness ==
    /\ BootSettled /\ HistHasToday(bootHistory) /\ DraftForToday(bootLog)
    /\ bootLog.val[1].notes # FindByDate(bootHistory.val, today).notes
    /\ lastStep = "persist"

\* C5: a draft whose date is not today is ignored at startup: the current
\* record is the history record for today if there is one, else the factory
\* default for today.
C5_StaleDraftIgnored ==
    (BootSettled /\ bootLog.kind = "json" /\ bootLog.val[1].date # today)
        => log = IF HistHasToday(bootHistory)
                 THEN FindByDate(bootHistory.val, today)
                 ELSE getInitialLog(today)

\* startup settled over a draft of an earlier day that holds notes
C5_Witness ==
    /\ BootSettled /\ bootLog.kind = "json"
    /\ bootLog.val[1].date < today /\ bootLog.val[1].notes = "a"
    /\ lastStep = "persist"

\* C6: the history in memory and the stored history hold at most one record
\* per date key, and whenever the component is quiescent the selected date,
\* the date of the current record and the date last mutated are found in both.
C6_HistoryKeyUniqueness ==
    /\ Unique(history) /\ Unique(nHistory)
    /\ storeHistory.kind = "json" => Unique(storeHistory.val)
    /\ Ready =>
         /\ storeHistory.kind = "json"
         /\ \A d \in {selectedDate, log.date} \cup (IF lastMutDate = 0 THEN {} ELSE {lastMutDate}) :
               /\ HasDate(history, d) /\ FindByDate(history, d).date = d
               /\ HasDate(storeHistory.val, d) /\ FindByDate(storeHistory.val, d).date = d

\* several dates were selected and mutated, the last one for the second time
C6_Witness ==
    /\ Ready /\ lastEvent = "mutate" /\ lastStep = "persist"
    /\ Len(history) >= 2 /\ Len(storeHistory.val) >= 2
    /\ log.notes = "a"

\* C7: the history in memory and the stored history are sorted strictly
\* descending by date key, in whatever order dates are visited and edited.
C7_HistoryOrdering ==
    /\ SortedDesc(history) /\ SortedDesc(nHistory)
    /\ storeHistory.kind = "json" => SortedDesc(storeHistory.val)

\* a record that is not the newest was mutated, folded and persisted
C7_Witness ==
    /\ Ready /\ lastEvent = "mutate" /\ lastStep = "persist"
    /\ Len(history) >= 2 /\ history[1] # log /\ log \in {history[i] : i \in 1..Len(history)}
    /\ storeHistory = StringifyHistory(history)

\* C8: the set of date keys in the stored history never shrinks.
C8_RecordsPersist == [][StoredDates \subseteq StoredDates']_vars

\* after a day change and a restart the stored history was rewritten and
\* holds the records of several dates
C8_Witness ==
    /\ lastStep = "persist" /\ wroteHistory /\ lastEvent = "boot"
    /\ Cardinality(StoredDates) >= 2
    /\ ~HasDate(bootHistory.val, today)

\* C9: every write of the draft slot stores the record of the calendar date
\* of the moment of the write, and folding a record of another date leaves
\* the draft slot unchanged.
C9_DraftWritesTodayOnly ==
    [][/\ (wroteLog' \/ storeLog' # storeLog)
           => /\ wroteLog'
              /\ storeLog'.kind = "json" /\ storeLog'.val[1].date = today'
       /\ (FoldEffect /\ log.date # today) => storeLog' = storeLog]_vars

\* a mutation of today's record was written to the draft slot
C9_Witness ==
    /\ lastStep = "fold" /\ wroteLog /\ lastEvent = "mutate"
    /\ storeLog = StringifyLog(log) /\ log.notes = "a"

\* C10 as stated: after a mutation has settled the draft slot holds a record
\* if and only if the date of the mutated record is the calendar date.
C10_DraftIffToday ==
    (Ready /\ lastEvent = "mutate")
        => (storeLog.kind = "json" <=> lastMutDate = today)

\* C10 amended: after a mutation has settled, if the date of the mutated
\* record is the calendar date then the draft slot holds that record.
C10_DraftIfToday ==
    (Ready /\ lastEvent = "mutate" /\ lastMutDate = today)
        => storeLog = StringifyLog(log)

\* a mutation of today's record has settled
C10_Witness ==
    /\ Ready /\ lastEvent = "mutate" /\ lastMutDate = today
    /\ log.notes = "a" /\ lastStep = "persist"

\* C11 as stated: whenever the draft slot holds a record, its date is the
\* calendar date.
C11_DraftAlwaysToday ==
    storeLog.kind = "json" => storeLog.val[1].date = today

\* C11 amended: startup leaves today's record in the draft slot; once the
\* slot holds today's record it holds a record of today until the calendar
\* date advances; the record it holds is never dated after today.
C11_DraftTodayUntilDayChange ==
    [][/\ (DraftForToday(storeLog) /\ today' = today) => DraftForToday(storeLog)'
       /\ BootSettled' => DraftForToday(storeLog)'
       /\ storeLog'.kind = "json" => storeLog'.val[1].date <= today']_vars

\* the day advanced while the component was open: the slot holds yesterday's
\* record, written by this run
C11_Witness ==
    /\ Ready /\ lastEvent = "tick"
    /\ storeLog = StringifyLog(log) /\ log.date < today

\* C12: after initialization a change of the selected date to D makes the
\* current record the history record of D if there is one, else the factory
\* default of D; and once the effects have settled the history in memory and
\* the stored history hold that record under D (an empty record when D was
\* not found).
C12_DateSelection ==
    [][/\ (DateSelEffect /\ isLoaded /\ lastEvent \in {"select", "selectNew"})
           => nLog' = IF HasDate(history, selectedDate)
                      THEN FindByDate(history, selectedDate)
                      ELSE getInitialLog(selectedDate)
       /\ (Ready' /\ lastEvent' = "selectNew")
           => log' = getInitialLog(selectedDate')
       /\ (Ready' /\ lastEvent' \in {"select", "selectNew"})
           => /\ log'.date = selectedDate'
              /\ HasDate(history', selectedDate')
              /\ FindByDate(history', selectedDate') = log'
              /\ storeHistory'.kind = "json"
              /\ HasDate(storeHistory'.val, selectedDate')
              /\ FindByDate(storeHistory'.val, selectedDate') = JsonLog(log')]_vars

\* a date without a record was selected and the effects have settled
C12_Witness ==
    /\ Ready /\ lastEvent = "selectNew" /\ lastStep = "persist"
    /\ Len(history) >= 2 /\ log = getInitialLog(selectedDate)
    /\ selectedDate # today

\* C14: read failures never stop the component: whatever the two slots hold
\* (nothing, unparseable text, valid JSON) no effect and no updater throws,
\* the tree is never unmounted, and the settled startup has isLoaded true and
\* a current record dated today.
C14_ReadFailuresNeverStop ==
    /\ ~failing /\ ~crashed
    /\ BootSettled => (isLoaded /\ log.date = today)

\* C15: when the history slot is present and does not hold a sequence of
\* records (unparseable text, or JSON that is not an array, such as null), the
\* history the load effect leaves in memory is the empty array, and the folds
\* and lookups that follow do not throw.
C15_NonArrayHistoryIsEmpty ==
    (lastEvent = "boot" /\ bootHistory.kind \in {"garbage", "null"})
        => /\ histOk /\ nHistOk
           /\ ~failing /\ ~crashed
           /\ lastStep = "load" => nHistory = <<>>

\* C13: a restart on the same calendar date gives back the record that was
\* current before it: every scalar field and every entry sequence, in order.
C13_RestartRoundTrip ==
    (BootSettled /\ bootPrev # <<>> /\ bootPrev[1].date = today)
        => log = bootPrev[1]

\* C16: an add handler called with a blank label (source of a meal or misc
\* entry, type of an activity) changes neither the current record, nor the
\* history, nor the two slots, nor the staging values, and schedules nothing.
C16_RejectedAddChangesNothing ==
    [][(\/ lastStep' = "savePendingEntry" /\ pendingEntry.source = ""
        \/ lastStep' = "savePendingMisc" /\ pendingMisc.source = ""
        \/ lastStep' = "savePendingActivity" /\ pendingActivity.type = "")
          => /\ UNCHANGED <<log, nLog, history, nHistory, storeHistory, storeLog>>
             /\ UNCHANGED <<pendingEntry, pendingActivity, pendingMisc>>
             /\ UNCHANGED <<changed, todo>>]_vars

\* Enter was pressed in the time input of the misc form, its source blank
C16_Witness ==
    /\ lastEvent = "rejected" /\ lastStep = "savePendingMisc"
    /\ pendingMisc.time = "08:00" /\ pendingMisc.source = ""
    /\ NumEntries(log) > 0 /\ HasRecords(storeHistory)

\* new is old with one entry put in front that carries the staged values
AddedInFront(old, new, staged) ==
    /\ Len(new) = Len(old) + 1
    /\ \A f \in DOMAIN staged \ {"id", "time"} : new[1][f] = staged[f]
    /\ \A k \in 1..Len(old) : new[k + 1] = old[k]

\* C17: an accepted add makes the sequence one longer, the new entry is at
\* index 0 and carries the staged values, the entries that were there follow
\* it in the order they had, and the staging object is blank again; the next
\* render makes that record the current one.
C17_AcceptedAddPrepends ==
    [][/\ (lastStep' = "savePendingEntry" /\ pendingEntry.source # "")
           => /\ AddedInFront(nLog.foodEntries, nLog'.foodEntries, pendingEntry)
              /\ pendingEntry' = BlankEntry
       /\ (lastStep' = "savePendingMisc" /\ pendingMisc.source # "")
           => /\ AddedInFront(nLog.miscEntries, nLog'.miscEntries, pendingMisc)
              /\ pendingMisc' = BlankMisc
       /\ (lastStep' = "savePendingActivity" /\ pendingActivity.type # "")
           => /\ AddedInFront(nLog.activities, nLog'.activities, pendingActivity)
              /\ pendingActivity' = BlankActivity
       /\ (lastEvent = "mutate" /\ lastStep' = "render") => log' = nLog]_vars

\* a second meal was added
C17_Witness ==
    /\ lastStep = "savePendingEntry" /\ lastEvent = "mutate"
    /\ Len(log.foodEntries) = 1 /\ Len(nLog.foodEntries) = 2
    /\ nLog.foodEntries[2] = log.foodEntries[1]
    /\ nLog.foodEntries[1] # nLog.foodEntries[2]
    /\ pendingEntry = BlankEntry

\* C18: the time stored with a new meal or misc entry is the wall-clock time
\* of the add when the staged time is blank, and the staged time otherwise.
C18_TimeDefaulting ==
    [][/\ (lastStep' = "savePendingEntry" /\ pendingEntry.source # "")
           => nLog'.foodEntries[1].time =
                  IF pendingEntry.time = "" THEN wallClock ELSE pendingEntry.time
       /\ (lastStep' = "savePendingMisc" /\ pendingMisc.source # "")
           => nLog'.miscEntries[1].time =
                  IF pendingMisc.time = "" THEN wallClock ELSE pendingMisc.time]_vars

\* a meal with a staged time, then a minute later a meal without
C18_Witness ==
    /\ Ready /\ Len(log.foodEntries) = 2
    /\ log.foodEntries[1].time = "12:35"
    /\ log.foodEntries[2].time = "08:00"

\* new is old without its entries of the id, the others in their old order
RemovalOf(old, new, id) ==
    LET keep == {i \in 1..Len(old) : old[i].id # id}
    IN /\ keep = 1..Len(old) => new = old
       /\ Len(new) = Cardinality(keep)
       /\ \A k \in 1..Len(new) :
             /\ new[k].id # id
             /\ new[k] = old[CHOOSE i \in keep :
                                 Cardinality({j \in keep : j <= i}) = k]

\* C19: removing by an id that is not in the sequence leaves the sequence as
\* it is, element by element; removing by an id that is in it gives the
\* sequence without that entry, the others in their previous order.
C19_RemoveById ==
    [][\A id \in IdVals :
          /\ removeFoodEntry(id)
               => RemovalOf(nLog.foodEntries, nLog'.foodEntries, id)
          /\ removeMiscEntry(id)
               => RemovalOf(nLog.miscEntries, nLog'.miscEntries, id)
          /\ removeActivity(id)
               => RemovalOf(nLog.activities, nLog'.activities, id)]_vars

\* the second of two meals was removed
C19_Witness ==
    /\ lastStep = "removeFoodEntry"
    /\ Len(log.foodEntries) = 2 /\ Len(nLog.foodEntries) = 1
    /\ nLog.foodEntries[1] = log.foodEntries[1]

\* C20: a click on pip i (0..7) with the count at c sets the count to i when
\* c = i + 1 and to i + 1 otherwise; the next render shows that count.
C20_WaterToggle ==
    [][/\ \A i \in Pips :
             ClickPip(i) => nLog'.waterIntake =
                                IF log.waterIntake = i + 1 THEN i ELSE i + 1
       /\ (lastStep = "clickPip" /\ lastStep' = "render")
             => log'.waterIntake = nLog.waterIntake]_vars

\* the count was 3 and pip 2 was clicked
C20_Witness ==
    /\ lastStep = "clickPip"
    /\ log.waterIntake = 3 /\ nLog.waterIntake = 2

\* C21: selecting the date that is selected already (date input, "Reset to
\* Today", a history row) changes neither the current record, nor the
\* history, nor the two slots, and schedules no render and no effect, also
\* when the record was edited since the date was selected.
C21_SelectSameDateNoOp ==
    [][(/\ lastStep' \in {"dateInput", "resetToToday", "historyRow"}
        /\ selectedDate' = selectedDate)
          => /\ UNCHANGED <<log, nLog, history, nHistory, storeHistory, storeLog>>
             /\ changed' = {} /\ todo' = <<>>]_vars

\* "Reset to Today" was pressed while today's edited record was shown
C21_Witness ==
    /\ Ready /\ lastStep = "resetToToday"
    /\ selectedDate = today /\ log.date = today /\ log.notes = "a"
    /\ Len(history) >= 2

\* the fields a record has
RecordFields ==
    {"date", "proteinGoal", "totalProteinCalories", "ketosis", "followedPlan",
     "notes", "waterIntake", "foodEntries", "miscEntries", "fatEntries",
     "vegetableEntries", "activities", "supplements"}

\* r has the key k and every scalar field at its default
ScalarDefaults(r, k) ==
    /\ DOMAIN r = RecordFields
    /\ r.date = k
    /\ r.proteinGoal = "" /\ r.notes = ""
    /\ r.totalProteinCalories = 0 /\ r.waterIntake = 0
    /\ r.ketosis = FALSE /\ r.followedPlan = FALSE

\* the records the factory has just made, with the key it was given: the
\* record of the first render, and the one the date selection effect queues
\* for a date that has no record
FactoryMade ==
    (IF lastStep = "mount" THEN {<<log, today>>} ELSE {})
      \cup (IF lastStep = "datesel" /\ lastEvent = "selectNew"
            THEN {<<nLog, selectedDate>>} ELSE {})

\* C22 as stated: the factory returns, for every key, a record of that key
\* with the scalar fields at their defaults and every sequence field empty.
C22_FactoryAllEmpty ==
    \A m \in FactoryMade \cup {<<getInitialLog(k), k>> : k \in Dates} :
        /\ ScalarDefaults(m[1], m[2])
        /\ \A f \in {"foodEntries", "miscEntries", "fatEntries",
                     "vegetableEntries", "activities", "supplements"} :
              m[1][f] = <<>>

\* C22 amended: the factory returns, for every key, a record of that key with
\* the scalar fields at their defaults, the entry sequences foodEntries,
\* miscEntries, activities and supplements empty, and fatEntries and
\* vegetableEntries holding two empty strings each; two calls with the same
\* key give equal records.
C22_FactoryDefaults ==
    \A m \in FactoryMade \cup {<<getInitialLog(k), k>> : k \in Dates} :
        /\ ScalarDefaults(m[1], m[2])
        /\ \A f \in {"foodEntries", "miscEntries", "activities", "supplements"} :
              m[1][f] = <<>>
        /\ m[1].fatEntries = <<"", "">> /\ m[1].vegetableEntries = <<"", "">>
        /\ m[1] = getInitialLog(m[2])

\* the date selection effect has made a record for a date that had none
C22_Witness ==
    /\ lastStep = "datesel" /\ lastEvent = "selectNew"
    /\ selectedDate # today /\ nLog.date = selectedDate /\ nLog # log
    /\ ~HasDate(history, selectedDate)

\* the records of h2 for the dates other than d are those of h1, unchanged
SameOtherDays(h1, h2, d) ==
    \A k \in (DatesOf(h1) \cup DatesOf(h2)) \ {d} :
        /\ HasDate(h1, k) /\ HasDate(h2, k)
        /\ FindByDate(h2, k) = FindByDate(h1, k)

\* C23: a fold changes only the history entry of the date of the current
\* record: the records of every other date are in the history after the fold
\* as they were before it, and every write of the stored history leaves the
\* stored records of the other dates as they were.
C23_FoldFrame ==
    [][/\ (lastStep' = "fold" /\ nHistOk)
           => SameOtherDays(nHistory, nHistory', log.date)
       /\ (storeHistory' # storeHistory /\ storeHistory.kind = "json")
           => /\ storeHistory'.kind = "json"
              /\ SameOtherDays(storeHistory.val, storeHistory'.val, log.date)]_vars

\* an edit of one day was folded and written next to the notes of another day
C23_Witness ==
    /\ lastStep = "persist" /\ wroteHistory /\ lastEvent = "mutate"
    /\ log.notes = "a"
    /\ \E i \in 1..Len(history) :
          /\ history[i].date # log.date /\ history[i].notes = "a"
          /\ FindByDate(storeHistory.val, history[i].date) = history[i]

\* the field of the record that the handler named by a step may change
OwnField(step) ==
    CASE step \in {"savePendingEntry", "removeFoodEntry"} -> "foodEntries"
      [] step \in {"savePendingMisc", "removeMiscEntry"} -> "miscEntries"
      [] step \in {"savePendingActivity", "removeActivity"} -> "activities"
      [] step = "clickPip" -> "waterIntake"
      [] step = "editNotes" -> "notes"
      [] step = "editProteinGoal" -> "proteinGoal"
      [] step = "setKetosis" -> "ketosis"
      [] step = "setFollowedPlan" -> "followedPlan"

MutationSteps ==
    {"savePendingEntry", "removeFoodEntry", "savePendingMisc", "removeMiscEntry",
     "savePendingActivity", "removeActivity", "clickPip", "editNotes",
     "editProteinGoal", "setKetosis", "setFollowedPlan"}

\* C24: an entry add, an entry remove and a scalar edit change only their own
\* field of the current record: not its date, not the other entry sequences,
\* not the other scalar fields; they do not change the selected date, and the
\* record that the effects settle on is the record the handler made.
C24_MutationFrame ==
    [][/\ lastStep' \in MutationSteps
           => /\ \A f \in RecordFields \ {OwnField(lastStep')} : nLog'[f] = nLog[f]
              /\ DOMAIN nLog' = RecordFields
              /\ nLog'.date = log.date
              /\ selectedDate' = selectedDate
       /\ (lastEvent = "mutate" /\ ~Ready /\ Ready')
           => /\ log' = nLog' /\ log'.date = lastMutDate'
              /\ selectedDate' = log'.date]_vars

\* a meal was added to a record that has a goal, notes, water and an activity
C24_Witness ==
    /\ lastStep = "savePendingEntry" /\ lastEvent = "mutate"
    /\ Len(nLog.foodEntries) = 1 /\ Len(log.foodEntries) = 0
    /\ Len(nLog.activities) = 1
    /\ nLog.notes = "a" /\ nLog.proteinGoal = "120g" /\ nLog.waterIntake = 3
    /\ nLog.ketosis /\ nLog.followedPlan

\* C25 as stated: in every quiescent state after initialization the history
\* holds a record equal to the current record, the stored history is the
\* serialization of the history in memory, and when the current record is
\* dated today the draft slot holds it.
C25_SettledConsistency ==
    Ready => /\ HasDate(history, log.date)
             /\ FindByDate(history, log.date) = log
             /\ storeHistory = StringifyHistory(history)
             /\ log.date = today => storeLog = StringifyLog(log)

\* C25 amended: in every quiescent state after initialization the history
\* holds a record equal to the current record and the stored history is the
\* serialization of the history in memory; when the current record is dated
\* today the draft slot holds it, or still holds the record of an earlier day
\* that was written before the calendar date advanced.
C25_SettledConsistencyModuloDayChange ==
    Ready => /\ HasDate(history, log.date)
             /\ FindByDate(history, log.date) = log
             /\ storeHistory = StringifyHistory(history)
             /\ log.date = today
                   => \/ storeLog = StringifyLog(log)
                      \/ /\ storeLog.kind = "json"
                         /\ storeLog.val[1].date < today

\* a record of several days was edited and everything has settled
C25_Witness ==
    /\ Ready /\ lastEvent = "mutate" /\ lastStep = "persist"
    /\ log.date = today /\ log.notes = "a"
    /\ Len(history) >= 2
    /\ storeLog = StringifyLog(log)
    /\ storeHistory = StringifyHistory(history)

\* C26: in every quiescent state after initialization the date of the
\* current record is the selected date.
C26_RecordOfSelectedDate ==
    Ready => log.date = selectedDate /\ nLog.date = selectedDate

\* a date that has a record was selected and its record is shown
C26_Witness ==
    /\ Ready /\ lastEvent = "select" /\ lastStep = "persist"
    /\ selectedDate # today /\ log.date = selectedDate /\ log.notes = "a"

\* C27: the chain of effects and renders that startup, a mutation or a date
\* selection starts always comes to an end: from every state in which an
\* effect or a render is pending, a state is reached in which none is (the
\* component is quiescent, or the tree was unmounted by the error of C15).
C27_ReconciliationTerminates ==
    (todo # <<>> \/ changed # {} \/ failing) ~> (Idle \/ crashed)

\* the record that the date selection effect made has been folded, and the
\* history it changed is waiting for its render and the persist effect
C27_Witness ==
    /\ lastEvent = "selectNew" /\ lastStep = "fold"
    /\ todo = <<>> /\ changed = {"history"}
    /\ HasDate(nHistory, selectedDate) /\ ~HasDate(history, selectedDate)

\* the records in memory and in the stored history
AllRecords ==
    {log, nLog}
      \cup {history[i] : i \in 1..Len(history)}
      \cup {nHistory[i] : i \in 1..Len(nHistory)}
      \cup {storeHistory.val[i] : i \in 1..Len(storeHistory.val)}
      \cup {storeLog.val[i] : i \in 1..Len(storeLog.val)}

\* C28: starting from a factory record, whatever pips 0..7 are clicked, the
\* water count of the current record and of every history record is an
\* integer from 0 to 8.
C28_WaterRange ==
    \A r \in AllRecords : r.waterIntake \in 0..NumPips

\* the last pip was clicked and the full count is in the history
C28_Witness ==
    /\ Ready /\ lastStep = "persist"
    /\ log.waterIntake = NumPips
    /\ FindByDate(history, log.date).waterIntake = NumPips
    /\ FindByDate(storeHistory.val, log.date).waterIntake = NumPips

\* the ids of the entries of s are pairwise distinct
DistinctIds(s) ==
    \A i, j \in 1..Len(s) : s[i].id = s[j].id => i = j

\* C29: whatever is added and removed, the ids of the entries of each entry
\* sequence of the record are pairwise distinct, and none is the id of a
\* staging object.
C29_EntryIdsUnique ==
    \A r \in {log, nLog} :
        \A s \in {r.foodEntries, r.miscEntries, r.activities} :
            /\ DistinctIds(s)
            /\ \A i \in 1..Len(s) :
                  s[i].id \notin {BlankEntry.id, BlankActivity.id, BlankMisc.id}

\* C30: every record in the history, in memory and stored, has a well-formed
\* date key; no record with the empty key is made or stored when the date
\* input is cleared.
C30_WellFormedKeys ==
    /\ DatesOf(history) \cup DatesOf(nHistory) \subseteq Dates
    /\ storeHistory.kind = "json" => DatesOf(storeHistory.val) \subseteq Dates

====
